---------------------------- MODULE Spec2Model ----------------------------
(***************************************************************************)
(* GoalGame: the goal life cycle (completion, missed-goal marking), the    *)
(* profile score totals and the game-state classification.                 *)
(*                                                                         *)
(* Time is counted in ticks; a calendar day has DayLen ticks.  The         *)
(* database reckons in UTC (instants are UTC ticks, DATE(t) = t \div       *)
(* DayLen); a browser reckons in local time, tz ticks ahead of UTC.        *)
(***************************************************************************)
EXTENDS Integers, FiniteSets, Sequences, TLC

VARIABLES
    now,          \* the wall clock, in UTC ticks
    tz,           \* the browsers' offset from UTC, in ticks (local = UTC + tz)
    goals,        \* table public.goals: goal id -> row
    profile,      \* the user's row of public.profiles
    view_goals,   \* per client: React state `goals` (last fetched rows)
    view_profile, \* per client: React state `profile` (last fetched row)
    pc,           \* per client: where handleCompleteGoal stands
    pending,      \* per client: the absolute totals handleCompleteGoal will write
    sweepQ,       \* per client: missedGoals still to be touched by handleMissedGoals
    cron,         \* per session of check_all_overdue_goals: rows selected, NOW()
    ev,           \* what the last step did (history, for the properties)
    fin           \* inputs and result of the pure-function specifications

vars == <<now, tz, goals, profile, view_goals, view_profile, pc, pending,
          sweepQ, cron, ev, fin>>

-----------------------------------------------------------------------------
(* Bounds of the model *)

DayLen == 4
MaxTicks == 2

NULL == 0 - 1
Epoch == DayLen                     \* the clock starts at 00:00 of day 1
Times == 0 .. DayLen - 1
GoalIds == {1, 2}
Clients == {"c1"}
Sessions == {"s1"}
TZOffsets == {0 - 1, 0, 1}       \* the zones a browser may be in
DueDates == {1}
DueTimes == {1}
DayEndChoices == {1}             \* the day_end_time settings of the profile
\* what CreateGoalDialog can insert: <<goal_type, due_date, due_time>>
GoalKinds ==
    {<<"daily", NULL, dt>> : dt \in DueTimes \cup {NULL}} \cup
    {<<"long_term", dd, dt>> : dd \in DueDates \cup {NULL}, dt \in DueTimes \cup {NULL}}

Instant(date, time) == date * DayLen + time
DateOf(t) == t \div DayLen
TimeOf(t) == t % DayLen

-----------------------------------------------------------------------------
(* Scoring rules *)

EarlyCompletion == [userPoints |-> 20, aiPoints |-> 0 - 5]
DailyOnTime == [userPoints |-> 5, aiPoints |-> 5]
LongTermOnTime == [userPoints |-> 10, aiPoints |-> 0]
LateCompletion == [userPoints |-> 5, aiPoints |-> 5]
NoDeadline == [userPoints |-> 10, aiPoints |-> 0]
MissedAiPoints == 15

\* 23:59:59, the end of a day as handleCompleteGoal hard-codes it
EndOfDay235959 == DayLen - 1
\* '23:59:00', the day end the SQL functions fall back to
SqlDefaultDayEnd == DayLen - 1
\* "23:59", the day end handleMissedGoals falls back to
SweepDefaultDayEnd == DayLen - 1

\* new Date().toISOString().split("T")[0]: the UTC calendar date of an instant
ToISODate(t) == DateOf(t)
\* new Date(`${date}T${time}`): a date-time without zone is read as local time
ParseLocalDateTime(date, time, z) == Instant(date, time) - z
\* new Date("YYYY-MM-DD"): a date-only string is read as UTC midnight
ParseDateOnly(date) == Instant(date, 0)
\* d.setHours(h, m, s): the same local calendar date, at the local time given
SetHours(t, time, z) == Instant(DateOf(t + z), time) - z

\* handleCompleteGoal, the point split; `at` is new Date(), z the browser's zone
ResolveCompletion(goal, at, z) ==
    IF goal.goal_type = "daily"
    THEN IF goal.due_time # NULL
         THEN IF at < ParseLocalDateTime(ToISODate(at), goal.due_time, z)
              THEN EarlyCompletion ELSE DailyOnTime
         ELSE DailyOnTime
    ELSE IF goal.due_date # NULL /\ goal.due_time # NULL
         THEN IF at < ParseLocalDateTime(goal.due_date, goal.due_time, z)
              THEN EarlyCompletion ELSE LongTermOnTime
         ELSE IF goal.due_date # NULL
              THEN IF at <= SetHours(ParseDateOnly(goal.due_date), EndOfDay235959, z)
                   THEN LongTermOnTime ELSE LateCompletion
              ELSE NoDeadline


-----------------------------------------------------------------------------
(* The database: tables, trigger functions, statements *)

Max(a, b) == IF a >= b THEN a ELSE b

\* a slot of public.goals no INSERT has filled yet
NoGoal ==
    [exists |-> FALSE, goal_type |-> "daily", due_date |-> NULL, due_time |-> NULL,
     created_at |-> NULL, completed |-> FALSE, completed_at |-> NULL,
     points_earned |-> 0, ai_points_earned |-> 0]

\* COALESCE(day_end_time, '23:59:00'::TIME)
UserDayEndTime(prof) ==
    IF prof.day_end_time # NULL THEN prof.day_end_time ELSE SqlDefaultDayEnd

\* goal_deadline of process_missed_goal and check_all_overdue_goals; NULL: no deadline
GoalDeadline(row, user_day_end_time) ==
    IF row.goal_type = "daily"
    THEN Instant(DateOf(row.created_at), user_day_end_time)
    ELSE IF row.due_date # NULL
         THEN IF row.due_time # NULL
              THEN Instant(row.due_date, row.due_time)
              ELSE Instant(row.due_date, user_day_end_time)
         ELSE NULL

\* process_missed_goal without its guard on NEW.completed: the variant that
\* re-evaluates completed rows (C7 must tell it from the function)
process_missed_goal_unguarded(NEWrow, prof, t) ==
    LET goal_deadline == GoalDeadline(NEWrow, UserDayEndTime(prof))
    IN  IF goal_deadline # NULL /\ t > goal_deadline
        THEN [row |-> [NEWrow EXCEPT !.completed = TRUE,
                                  !.completed_at = t,
                                  !.ai_points_earned = MissedAiPoints,
                                  !.points_earned = 0],
              ai_add |-> MissedAiPoints, raised |-> FALSE]
        ELSE [row |-> NEWrow, ai_add |-> 0, raised |-> FALSE]

\* process_missed_goal without the assignment of NEW.ai_points_earned: the
\* variant that awards the penalty but does not record it on the goal (C6
\* must tell it from the function)
process_missed_goal_unrecorded(NEWrow, prof, t) ==
    IF NEWrow.completed
    THEN [row |-> NEWrow, ai_add |-> 0, raised |-> FALSE]
    ELSE LET goal_deadline == GoalDeadline(NEWrow, UserDayEndTime(prof))
         IN  IF goal_deadline # NULL /\ t > goal_deadline
             THEN [row |-> [NEWrow EXCEPT !.completed = TRUE,
                                       !.completed_at = t,
                                       !.points_earned = 0],
                   ai_add |-> MissedAiPoints, raised |-> FALSE]
             ELSE [row |-> NEWrow, ai_add |-> 0, raised |-> FALSE]

\* BEFORE UPDATE trigger on goals.  row: the row to store; ai_add: what the
\* function adds to profiles.ai_points; raised: whether it raises an exception
process_missed_goal(NEWrow, prof, t) ==
    IF NEWrow.completed
    THEN [row |-> NEWrow, ai_add |-> 0, raised |-> FALSE]
    ELSE LET goal_deadline == GoalDeadline(NEWrow, UserDayEndTime(prof))
         IN  IF goal_deadline = NULL
             THEN [row |-> NEWrow, ai_add |-> 0, raised |-> FALSE]
             ELSE IF t > goal_deadline /\ ~NEWrow.completed
                  THEN [row |-> [NEWrow EXCEPT !.completed = TRUE,
                                            !.completed_at = t,
                                            !.ai_points_earned = MissedAiPoints,
                                            !.points_earned = 0],
                        ai_add |-> MissedAiPoints, raised |-> FALSE]
                  ELSE [row |-> NEWrow, ai_add |-> 0, raised |-> FALSE]

\* update_streak_on_goal_complete without its same-day branch: the variant
\* that counts every completion of a day (C12 must tell it from the function)
update_streak_every_completion(OLDrow, NEWrow, prof, today) ==
    IF NEWrow.completed /\ ~OLDrow.completed
    THEN IF prof.last_goal_date = today - 1 \/ prof.last_goal_date = today
         THEN [prof EXCEPT !.current_streak = @ + 1,
                           !.longest_streak = IF @ >= prof.current_streak + 1
                                              THEN @ ELSE prof.current_streak + 1,
                           !.last_goal_date = today]
         ELSE [prof EXCEPT !.current_streak = 1,
                           !.longest_streak = IF @ >= 1 THEN @ ELSE 1,
                           !.last_goal_date = today]
    ELSE prof

\* update_streak_on_goal_complete storing the new current_streak as the
\* longest_streak: the variant that forgets a longer streak of the past (C27
\* must tell it from the function)
update_streak_longest_follows(OLDrow, NEWrow, prof, today) ==
    IF NEWrow.completed /\ ~OLDrow.completed
    THEN IF prof.last_goal_date = today - 1
         THEN [prof EXCEPT !.current_streak = @ + 1,
                           !.longest_streak = prof.current_streak + 1,
                           !.last_goal_date = today]
         ELSE IF prof.last_goal_date = today
              THEN prof
              ELSE [prof EXCEPT !.current_streak = 1,
                                !.longest_streak = 1,
                                !.last_goal_date = today]
    ELSE prof

\* AFTER UPDATE trigger on goals; today is CURRENT_DATE
update_streak_on_goal_complete(OLDrow, NEWrow, prof, today) ==
    IF NEWrow.completed /\ ~OLDrow.completed
    THEN IF prof.last_goal_date = today - 1
         THEN [prof EXCEPT !.current_streak = @ + 1,
                           !.longest_streak = Max(@, prof.current_streak + 1),
                           !.last_goal_date = today]
         ELSE IF prof.last_goal_date = today
              THEN prof
              ELSE [prof EXCEPT !.current_streak = 1,
                                !.longest_streak = Max(@, 1),
                                !.last_goal_date = today]
    ELSE prof

\* The row with the columns of `set` assigned
Assign(row, set) ==
    [f \in DOMAIN row |-> IF f \in DOMAIN set THEN set[f] ELSE row[f]]

\* UPDATE public.goals SET <set> WHERE id = g, in a transaction begun at t:
\* the BEFORE trigger, the row stored, the AFTER trigger.  db = [goals, profile]
UpdateGoal(db, g, set, t) ==
    IF ~db.goals[g].exists
    THEN [goals |-> db.goals, profile |-> db.profile, marked |-> {},
          onCompleted |-> FALSE, raised |-> FALSE]
    ELSE LET OLDrow == db.goals[g]
             trig == process_missed_goal(Assign(OLDrow, set), db.profile, t)
             prof1 == [db.profile EXCEPT !.ai_points = @ + trig.ai_add]
             prof2 == update_streak_on_goal_complete(OLDrow, trig.row, prof1, DateOf(t))
         IN  [goals |-> [db.goals EXCEPT ![g] = trig.row],
              profile |-> prof2,
              marked |-> IF trig.ai_add # 0 THEN {g} ELSE {},
              onCompleted |-> OLDrow.completed /\ "completed" \notin DOMAIN set,
              raised |-> trig.raised]

Db == [goals |-> goals, profile |-> profile]

\* fetchGoals / fetchProfile: what a client keeps of the rows it reads
GoalView(row) ==
    [exists |-> row.exists, completed |-> row.completed,
     due_date |-> row.due_date, due_time |-> row.due_time]
ProfileView(prof) ==
    [total_points |-> prof.total_points, ai_points |-> prof.ai_points]

\* the Goal object a handler holds: the client's copy of the row
ClientGoal(c, g) ==
    [goal_type |-> goals[g].goal_type, created_at |-> goals[g].created_at,
     due_date |-> view_goals[c][g].due_date, due_time |-> view_goals[c][g].due_time,
     completed |-> view_goals[c][g].completed]

-----------------------------------------------------------------------------
(* The clients (Dashboard) and the periodic check_all_overdue_goals *)

NoPending == [total_points |-> 0, ai_points |-> 0]
NoCron == [mark |-> {}, at |-> NULL]

Event(r, g) ==
    [marked |-> r.marked, onCompleted |-> r.onCompleted, raised |-> r.raised, goal |-> g]
NoEvent == [marked |-> {}, onCompleted |-> FALSE, raised |-> FALSE, goal |-> NULL]

\* handleMissedGoals, the filter: is the client's copy of goal g overdue at `at`?
MissedFilter(c, g, at) ==
    LET goal == ClientGoal(c, g)
        eod == IF profile.day_end_time # NULL THEN profile.day_end_time
               ELSE SweepDefaultDayEnd
    IN  IF goal.completed THEN FALSE
        ELSE IF goal.goal_type = "daily"
             THEN at > SetHours(goal.created_at, eod, tz)
             ELSE IF goal.due_date # NULL
                  THEN IF goal.due_time # NULL
                       THEN at > SetHours(ParseDateOnly(goal.due_date), goal.due_time, tz)
                       ELSE at > SetHours(ParseDateOnly(goal.due_date), eod, tz)
                  ELSE FALSE

\* check_all_overdue_goals: the rows its FOR query selects and finds overdue
OverdueRows(gs, prof, t) ==
    {g \in GoalIds :
        /\ gs[g].exists
        /\ ~gs[g].completed
        /\ GoalDeadline(gs[g], UserDayEndTime(prof)) # NULL
        /\ t > GoalDeadline(gs[g], UserDayEndTime(prof))}

\* check_all_overdue_goals: the two UPDATEs of one loop iteration
OverdueUpdate(db, g, at) ==
    LET r == UpdateGoal(db, g,
                 [completed |-> TRUE, completed_at |-> at,
                  ai_points_earned |-> MissedAiPoints, points_earned |-> 0], at)
    IN  [goals |-> r.goals,
         profile |-> [r.profile EXCEPT !.ai_points = @ + MissedAiPoints]]

RECURSIVE OverdueLoop(_, _, _)
OverdueLoop(db, S, at) ==
    IF S = {} THEN db
    ELSE LET g == CHOOSE x \in S : TRUE
         IN  OverdueLoop(OverdueUpdate(db, g, at), S \ {g}, at)

\* CreateGoalDialog.handleSubmit: the row its INSERT stores at instant t
InsertedGoal(k, t) ==
    [NoGoal EXCEPT !.exists = TRUE,
                   !.goal_type = k[1],
                   !.due_date = IF k[1] = "long_term" /\ k[2] # NULL THEN k[2] ELSE NULL,
                   !.due_time = k[3],
                   !.created_at = t]

\* Dashboard mounted, its goals inserted at the Epoch and fetched; the
\* browser is in UTC
Init ==
    /\ now = Epoch
    /\ tz = 0
    /\ goals \in [GoalIds -> {InsertedGoal(k, Epoch) : k \in GoalKinds}]
    /\ profile \in {[total_points |-> 0, ai_points |-> 0, day_end_time |-> d,
                     current_streak |-> 0, longest_streak |-> 0,
                     last_goal_date |-> NULL] : d \in DayEndChoices}
    /\ view_goals = [c \in Clients |-> [g \in GoalIds |-> GoalView(goals[g])]]
    /\ view_profile = [c \in Clients |-> ProfileView(profile)]
    /\ pc = [c \in Clients |-> "idle"]
    /\ pending = [c \in Clients |-> NoPending]
    /\ sweepQ = [c \in Clients |-> {}]
    /\ cron = [s \in Sessions |-> NoCron]
    /\ ev = NoEvent
    /\ fin = <<>>

\* handleCompleteGoal up to the UPDATE of the goal (the first await)
handleCompleteGoal(c, g) ==
    /\ pc[c] = "idle"
    /\ view_goals[c][g].exists
    /\ ~view_goals[c][g].completed
    /\ LET pts == ResolveCompletion(ClientGoal(c, g), now, tz)
           r == UpdateGoal(Db, g,
                    [completed |-> TRUE, completed_at |-> now,
                     points_earned |-> pts.userPoints,
                     ai_points_earned |-> pts.aiPoints], now)
       IN  /\ goals' = r.goals
           /\ profile' = r.profile
           /\ ev' = Event(r, g)
           /\ pending' = [pending EXCEPT ![c] =
                  [total_points |-> view_profile[c].total_points + pts.userPoints,
                   ai_points |-> view_profile[c].ai_points + pts.aiPoints]]
    /\ pc' = [pc EXCEPT ![c] = "profile"]
    /\ UNCHANGED <<now, tz, view_goals, view_profile, sweepQ, cron, fin>>

\* handleCompleteGoal from the UPDATE of the profile on: the totals are written
\* as absolute values, then fetchGoals and fetchProfile
CompleteProfile(c) ==
    /\ pc[c] = "profile"
    /\ profile' = [profile EXCEPT !.total_points = pending[c].total_points,
                                  !.ai_points = pending[c].ai_points]
    /\ view_goals' = [view_goals EXCEPT ![c] = [h \in GoalIds |-> GoalView(goals[h])]]
    /\ view_profile' = [view_profile EXCEPT ![c] = ProfileView(profile')]
    /\ pc' = [pc EXCEPT ![c] = "idle"]
    /\ pending' = [pending EXCEPT ![c] = NoPending]
    /\ ev' = NoEvent
    /\ UNCHANGED <<now, tz, goals, sweepQ, cron, fin>>

\* the realtime subscription on goals: fetchGoals
FetchGoals(c) ==
    /\ view_goals[c] # [h \in GoalIds |-> GoalView(goals[h])]
    /\ view_goals' = [view_goals EXCEPT ![c] = [h \in GoalIds |-> GoalView(goals[h])]]
    /\ ev' = NoEvent
    /\ UNCHANGED <<now, tz, goals, profile, view_profile, pc, pending, sweepQ, cron, fin>>

\* the realtime subscription on profiles: fetchProfile
FetchProfile(c) ==
    /\ view_profile[c] # ProfileView(profile)
    /\ view_profile' = [view_profile EXCEPT ![c] = ProfileView(profile)]
    /\ ev' = NoEvent
    /\ UNCHANGED <<now, tz, goals, profile, view_goals, pc, pending, sweepQ, cron, fin>>

\* EditGoalDialog.handleSubmit: UPDATE, then onGoalUpdated = fetchGoals
EditGoal(c, g, dueDate, dueTime) ==
    /\ view_goals[c][g].exists
    /\ ~view_goals[c][g].completed
    /\ LET r == UpdateGoal(Db, g,
                    [due_date |-> IF goals[g].goal_type = "long_term" /\ dueDate # NULL
                                  THEN dueDate ELSE NULL,
                     due_time |-> dueTime], now)
       IN  /\ goals' = r.goals
           /\ profile' = r.profile
           /\ ev' = Event(r, g)
    /\ view_goals' = [view_goals EXCEPT ![c] = [h \in GoalIds |-> GoalView(goals'[h])]]
    /\ UNCHANGED <<now, tz, view_profile, pc, pending, sweepQ, cron, fin>>

\* handleMissedGoals up to the loop: the overdue goals of the client's view
SweepStart(c) ==
    /\ sweepQ[c] = {}
    /\ LET missedGoals == {g \in GoalIds :
                              view_goals[c][g].exists /\ MissedFilter(c, g, now)}
       IN  /\ missedGoals # {}
           /\ sweepQ' = [sweepQ EXCEPT ![c] = missedGoals]
    /\ ev' = NoEvent
    /\ UNCHANGED <<now, tz, goals, profile, view_goals, view_profile, pc, pending,
                   cron, fin>>

\* handleMissedGoals, one iteration of the loop: UPDATE goals SET updated_at
SweepTouch(c) ==
    /\ sweepQ[c] # {}
    /\ \E g \in sweepQ[c] :
          /\ \A h \in sweepQ[c] : goals[h].created_at <= goals[g].created_at
          /\ LET r == UpdateGoal(Db, g, <<>>, now)
             IN  /\ goals' = r.goals
                 /\ profile' = r.profile
                 /\ ev' = Event(r, g)
          /\ sweepQ' = [sweepQ EXCEPT ![c] = @ \ {g}]
    /\ UNCHANGED <<now, tz, view_goals, view_profile, pc, pending, cron, fin>>

\* check_all_overdue_goals, the FOR query: NOW() and the rows are those of
\* the start of the transaction
CronSelect(s) ==
    /\ cron[s] = NoCron
    /\ OverdueRows(goals, profile, now) # {}
    /\ cron' = [cron EXCEPT ![s] = [mark |-> OverdueRows(goals, profile, now), at |-> now]]
    /\ ev' = NoEvent
    /\ UNCHANGED <<now, tz, goals, profile, view_goals, view_profile, pc, pending,
                   sweepQ, fin>>

\* check_all_overdue_goals, the UPDATEs of the loop, visible at commit
CronApply(s) ==
    /\ cron[s] # NoCron
    /\ LET db == OverdueLoop(Db, cron[s].mark, cron[s].at)
       IN  /\ goals' = db.goals
           /\ profile' = db.profile
    /\ ev' = [NoEvent EXCEPT !.marked = cron[s].mark]
    /\ cron' = [cron EXCEPT ![s] = NoCron]
    /\ UNCHANGED <<now, tz, view_goals, view_profile, pc, pending, sweepQ, fin>>

Tick ==
    /\ now < Epoch + MaxTicks
    /\ now' = now + 1
    /\ ev' = NoEvent
    /\ UNCHANGED <<tz, goals, profile, view_goals, view_profile, pc, pending,
                   sweepQ, cron, fin>>

Next ==
    \/ \E c \in Clients, g \in GoalIds : handleCompleteGoal(c, g)
    \/ \E c \in Clients : CompleteProfile(c)
    \/ \E c \in Clients : FetchGoals(c)
    \/ \E c \in Clients : FetchProfile(c)
    \/ \E c \in Clients, g \in GoalIds,
          dd \in DueDates \cup {NULL}, dt \in DueTimes \cup {NULL} :
            EditGoal(c, g, dd, dt)
    \/ \E c \in Clients : SweepStart(c)
    \/ \E c \in Clients : SweepTouch(c)
    \/ \E s \in Sessions : CronSelect(s)
    \/ \E s \in Sessions : CronApply(s)
    \/ Tick

Spec == Init /\ [][Next]_vars

-----------------------------------------------------------------------------
(* Properties of the goal life cycle, checked under Spec *)

Outcome(row) ==
    <<row.completed, row.points_earned, row.ai_points_earned>>

\* no operation of a client or of check_all_overdue_goals is under way
Quiescent ==
    /\ \A c \in Clients : pc[c] = "idle" /\ sweepQ[c] = {}
    /\ \A s \in Sessions : cron[s] = NoCron

RECURSIVE SumOver(_, _)
SumOver(f, S) ==
    IF S = {} THEN 0
    ELSE LET x == CHOOSE y \in S : TRUE IN f[x] + SumOver(f, S \ {x})

CompletedGoals == {g \in GoalIds : goals[g].exists /\ goals[g].completed}

\* C1: the missed penalty is awarded at most once per goal: no step awards
\* the 15 points for a goal that is already completed.
C1_PenaltyAtMostOnce ==
    [][\A g \in GoalIds : g \in ev'.marked => ~goals[g].completed]_vars

\* C2: completion and missed-marking exclude each other: a goal marked missed
\* keeps its missed outcome (no completion award replaces it), and a goal the
\* user completed is never marked missed afterwards.
C2_MutuallyExclusive ==
    [][\A g \in GoalIds :
          /\ (goals[g].completed /\ goals[g].ai_points_earned = MissedAiPoints
                  /\ goals[g].points_earned = 0)
                => Outcome(goals'[g]) = Outcome(goals[g])
          /\ (goals[g].completed /\ goals[g].points_earned > 0)
                => g \notin ev'.marked]_vars

\* C3: no update of the totals is lost: once every operation has finished,
\* total_points is the sum of points_earned and ai_points the sum of
\* ai_points_earned over the completed goals.
C3_TotalsAreSums ==
    Quiescent =>
        /\ profile.total_points =
               SumOver([g \in GoalIds |-> goals[g].points_earned], CompletedGoals)
        /\ profile.ai_points =
               SumOver([g \in GoalIds |-> goals[g].ai_points_earned], CompletedGoals)

\* C4: a completed goal has completed_at set, and from the moment a goal is
\* completed its points_earned and ai_points_earned never change.
C4_CompletedIsFinal ==
    /\ [](\A g \in GoalIds : goals[g].completed => goals[g].completed_at # NULL)
    /\ [][\A g \in GoalIds :
             goals[g].completed =>
                 /\ goals'[g].points_earned = goals[g].points_earned
                 /\ goals'[g].ai_points_earned = goals[g].ai_points_earned]_vars

\* the deadline as the specification states it, for the row as stored
\* (day end: the configured dayEndTime); NULL when the goal has none
StatedDeadline(row) ==
    IF row.goal_type = "daily"
    THEN Instant(DateOf(row.created_at), profile.day_end_time)
    ELSE IF row.due_date = NULL THEN NULL
         ELSE IF row.due_time # NULL
              THEN Instant(row.due_date, row.due_time)
              ELSE Instant(row.due_date, profile.day_end_time)

\* C5: a goal is marked missed only if it is not completed and now is strictly
\* after its deadline; a long-term goal without dueDate is never marked missed.
C5_MissedOnlyWhenOverdue ==
    [][\A g \in GoalIds :
          g \in ev'.marked =>
              /\ ~goals[g].completed
              /\ StatedDeadline(goals'[g]) # NULL
              /\ now > StatedDeadline(goals'[g])]_vars

\* C6: marking goals missed makes each of them completed with points_earned = 0
\* and ai_points_earned = 15, adds exactly 15 to ai_points for each, and
\* leaves total_points and every other goal unchanged.
C6_MissedEffect ==
    [][ev'.marked # {} =>
          /\ \A g \in ev'.marked :
                /\ goals'[g].completed
                /\ goals'[g].points_earned = 0
                /\ goals'[g].ai_points_earned = 15
          /\ profile'.ai_points = profile.ai_points + 15 * Cardinality(ev'.marked)
          /\ profile'.total_points = profile.total_points
          /\ \A g \in GoalIds \ ev'.marked : goals'[g] = goals[g]]_vars

\* C6, its case: one goal has just been marked missed while the other is open
C6_Witness ==
    /\ ev.marked = {1}
    /\ goals[1].completed /\ goals[1].ai_points_earned = 15
    /\ ~goals[2].completed
    /\ profile.ai_points = 15

-----------------------------------------------------------------------------
(* The point split of handleCompleteGoal, over goal kinds, instants and zones *)

ScoreInstants == Epoch .. Epoch + 2 * DayLen - 1

\* one goal of any kind, fetched by a browser in any zone, at any instant of
\* days 1 and 2; the goal is due (if at all) on day 1
InitScore ==
    /\ now \in ScoreInstants
    /\ tz \in TZOffsets
    /\ \E k \in GoalKinds :
          goals = [g \in GoalIds |-> IF g = 1 THEN InsertedGoal(k, Epoch) ELSE NoGoal]
    /\ profile \in {[total_points |-> 0, ai_points |-> 0, day_end_time |-> d,
                     current_streak |-> 0, longest_streak |-> 0,
                     last_goal_date |-> NULL] : d \in DayEndChoices}
    /\ view_goals = [c \in Clients |-> [g \in GoalIds |-> GoalView(goals[g])]]
    /\ view_profile = [c \in Clients |-> ProfileView(profile)]
    /\ pc = [c \in Clients |-> "idle"]
    /\ pending = [c \in Clients |-> NoPending]
    /\ sweepQ = [c \in Clients |-> {}]
    /\ cron = [s \in Sessions |-> NoCron]
    /\ ev = NoEvent
    /\ fin = <<>>

NextScore == \E c \in Clients, g \in GoalIds : handleCompleteGoal(c, g)

SpecScore == InitScore /\ [][NextScore]_vars

\* the user's local calendar date at instant t
LocalDate(t) == DateOf(t + tz)
\* the instant at which the user's clock shows `time` on `date`
LocalInstant(date, time) == Instant(date, time) - tz

Awarded(g) == [userPoints |-> goals[g].points_earned,
               aiPoints |-> goals[g].ai_points_earned]

\* C8: a goal with a due instant (daily with dueTime: today at dueTime;
\* long-term with dueDate and dueTime) completed strictly before it earns
\* +20 / -5; completed at or after it, +5 / +5 (daily) or +10 / 0 (long-term).
C8_EarlyIffBeforeDue ==
    \A g \in GoalIds :
        (goals[g].completed /\ goals[g].due_time # NULL
            /\ (goals[g].goal_type = "daily" \/ goals[g].due_date # NULL)) =>
        LET due == IF goals[g].goal_type = "daily"
                   THEN LocalInstant(LocalDate(goals[g].completed_at), goals[g].due_time)
                   ELSE LocalInstant(goals[g].due_date, goals[g].due_time)
        IN  Awarded(g) =
                IF goals[g].completed_at < due
                THEN [userPoints |-> 20, aiPoints |-> 0 - 5]
                ELSE IF goals[g].goal_type = "daily"
                     THEN [userPoints |-> 5, aiPoints |-> 5]
                     ELSE [userPoints |-> 10, aiPoints |-> 0]

\* C9: without a due time, a daily goal earns +5 / +5; a long-term goal with
\* dueDate earns +10 / 0 up to the end of dueDate and +5 / +5 after it; a
\* long-term goal without dueDate earns +10 / 0; so every completion earns
\* one of (20,-5), (10,0), (5,5).
C9_WithoutDueTime ==
    \A g \in GoalIds :
        goals[g].completed =>
            /\ Awarded(g) \in {[userPoints |-> 20, aiPoints |-> 0 - 5],
                               [userPoints |-> 10, aiPoints |-> 0],
                               [userPoints |-> 5, aiPoints |-> 5]}
            /\ (goals[g].goal_type = "daily" /\ goals[g].due_time = NULL)
                  => Awarded(g) = [userPoints |-> 5, aiPoints |-> 5]
            /\ (goals[g].goal_type = "long_term" /\ goals[g].due_date = NULL)
                  => Awarded(g) = [userPoints |-> 10, aiPoints |-> 0]
            /\ (goals[g].goal_type = "long_term" /\ goals[g].due_date # NULL
                    /\ goals[g].due_time = NULL)
                  => Awarded(g) =
                        IF goals[g].completed_at
                               <= LocalInstant(goals[g].due_date, EndOfDay235959)
                        THEN [userPoints |-> 10, aiPoints |-> 0]
                        ELSE [userPoints |-> 5, aiPoints |-> 5]

-----------------------------------------------------------------------------
(* The game state GameArena shows: DefaultGameStrategy.getGameState *)

PointValues == {0 - 5, 0, 15, 30, 40, 70}

\* getGameState without the end-of-day branch for equal scores: the variant
\* that reports a tie at the close of the day as an ordinary tie (C10 must
\* tell it from the function)
getGameState_plainTie(userPoints, aiPoints, isEndOfDay) ==
    IF userPoints = aiPoints THEN "tied"
    ELSE IF isEndOfDay
         THEN IF userPoints > aiPoints THEN "victory" ELSE "defeat"
         ELSE IF userPoints > aiPoints THEN "userWinning" ELSE "aiWinning"

\* getGameState with the two comparisons exchanged: the variant that reads
\* the scores the wrong way round (C11 must tell it from the function)
getGameState_exchanged(userPoints, aiPoints, isEndOfDay) ==
    IF isEndOfDay
    THEN IF aiPoints > userPoints THEN "victory"
         ELSE IF userPoints > aiPoints THEN "defeat"
         ELSE "endOfDay"
    ELSE IF aiPoints > userPoints THEN "userWinning"
         ELSE IF userPoints > aiPoints THEN "aiWinning"
         ELSE "tied"

getGameState(userPoints, aiPoints, isEndOfDay) ==
    IF isEndOfDay
    THEN IF userPoints > aiPoints THEN "victory"
         ELSE IF aiPoints > userPoints THEN "defeat"
         ELSE "endOfDay"
    ELSE IF userPoints > aiPoints THEN "userWinning"
         ELSE IF aiPoints > userPoints THEN "aiWinning"
         ELSE "tied"

\* everything but fin, at rest
Parked ==
    /\ now = Epoch
    /\ tz = 0
    /\ goals = [g \in GoalIds |-> NoGoal]
    /\ profile = [total_points |-> 0, ai_points |-> 0, day_end_time |-> NULL,
                  current_streak |-> 0, longest_streak |-> 0, last_goal_date |-> NULL]
    /\ view_goals = [c \in Clients |-> [g \in GoalIds |-> GoalView(NoGoal)]]
    /\ view_profile = [c \in Clients |-> ProfileView(profile)]
    /\ pc = [c \in Clients |-> "idle"]
    /\ pending = [c \in Clients |-> NoPending]
    /\ sweepQ = [c \in Clients |-> {}]
    /\ cron = [s \in Sessions |-> NoCron]
    /\ ev = NoEvent

ParkedVars == <<now, tz, goals, profile, view_goals, view_profile, pc, pending,
                sweepQ, cron, ev>>

InitClassify ==
    /\ Parked
    /\ fin \in [userPoints : PointValues, aiPoints : PointValues,
                isEndOfDay : BOOLEAN, state : {"none"}]

\* GameArena renders: gameState = gameStrategy.getGameState(...)
Classify ==
    /\ fin.state = "none"
    /\ fin' = [fin EXCEPT !.state = getGameState(fin.userPoints, fin.aiPoints,
                                                 fin.isEndOfDay)]
    /\ UNCHANGED ParkedVars

SpecClassify == InitClassify /\ [][Classify]_vars

C11_MonotonicInUserPoints ==
    (fin.state \in {"userWinning", "victory", "tied", "endOfDay"}) =>
        \A higher \in PointValues :
            higher > fin.userPoints =>
                getGameState(higher, fin.aiPoints, fin.isEndOfDay)
                    \notin {"aiWinning", "defeat"}

\* C11, its case: a tie at end of day, which a higher user score turns into
\* a victory
C11_Witness ==
    /\ fin.state = "endOfDay" /\ fin.userPoints = 40 /\ fin.aiPoints = 40
    /\ getGameState(70, fin.aiPoints, fin.isEndOfDay) = "victory"

-----------------------------------------------------------------------------
(* The streak columns, over the streaks a profile may hold when a goal is
   completed or marked missed on day 2 *)

MaxStreak == 4

\* the streak columns of a profile: the defaults, or a streak the trigger has
\* written (current_streak >= 1, longest_streak >= current_streak)
StreakStates(today) ==
    {[current_streak |-> 0, longest_streak |-> 0, last_goal_date |-> NULL]}
    \cup {x \in [current_streak : 1 .. MaxStreak, longest_streak : 1 .. MaxStreak,
                 last_goal_date : {today - 2, today - 1, today}] :
            x.longest_streak >= x.current_streak}

\* one goal inserted on day 1 and still open at 00:00 of day 2
InitStreak ==
    /\ now = Epoch + DayLen
    /\ tz = 0
    /\ \E k \in GoalKinds :
          goals = [g \in GoalIds |-> IF g = 1 THEN InsertedGoal(k, Epoch) ELSE NoGoal]
    /\ \E st \in StreakStates(DateOf(Epoch + DayLen)), d \in DayEndChoices :
          profile = [total_points |-> 0, ai_points |-> 0, day_end_time |-> d,
                     current_streak |-> st.current_streak,
                     longest_streak |-> st.longest_streak,
                     last_goal_date |-> st.last_goal_date]
    /\ view_goals = [c \in Clients |-> [g \in GoalIds |-> GoalView(goals[g])]]
    /\ view_profile = [c \in Clients |-> ProfileView(profile)]
    /\ pc = [c \in Clients |-> "idle"]
    /\ pending = [c \in Clients |-> NoPending]
    /\ sweepQ = [c \in Clients |-> {}]
    /\ cron = [s \in Sessions |-> NoCron]
    /\ ev = NoEvent
    /\ fin = <<>>

\* every operation on the goals, within the day
NextStreak ==
    \/ \E c \in Clients, g \in GoalIds : handleCompleteGoal(c, g)
    \/ \E c \in Clients : CompleteProfile(c)
    \/ \E c \in Clients : FetchGoals(c)
    \/ \E c \in Clients : FetchProfile(c)
    \/ \E c \in Clients, g \in GoalIds,
          dd \in DueDates \cup {NULL}, dt \in DueTimes \cup {NULL} :
            EditGoal(c, g, dd, dt)
    \/ \E c \in Clients : SweepStart(c)
    \/ \E c \in Clients : SweepTouch(c)
    \/ \E s \in Sessions : CronSelect(s)
    \/ \E s \in Sessions : CronApply(s)

SpecStreak == InitStreak /\ [][NextStreak]_vars

\* C12: when a goal goes from not completed to completed, then: last_goal_date
\* yesterday: current_streak grows by 1 and longest_streak is the larger of
\* itself and the new current_streak; last_goal_date today: both unchanged;
\* otherwise: current_streak is 1 and longest_streak the larger of itself and 1.
C12_StreakUpdate ==
    [][(\E g \in GoalIds : ~goals[g].completed /\ goals'[g].completed) =>
          LET today == DateOf(now)
              larger(a, b) == IF a >= b THEN a ELSE b
          IN  IF profile.last_goal_date = today - 1
              THEN /\ profile'.current_streak = profile.current_streak + 1
                   /\ profile'.longest_streak =
                          larger(profile.longest_streak, profile.current_streak + 1)
              ELSE IF profile.last_goal_date = today
                   THEN /\ profile'.current_streak = profile.current_streak
                        /\ profile'.longest_streak = profile.longest_streak
                   ELSE /\ profile'.current_streak = 1
                        /\ profile'.longest_streak = larger(profile.longest_streak, 1)
       ]_vars

\* C12, its case: a streak of MaxStreak days whose last day was yesterday has
\* grown by one on today's completion, and is the longest
C12_Witness ==
    /\ goals[1].completed
    /\ profile.current_streak = MaxStreak + 1
    /\ profile.longest_streak = MaxStreak + 1
    /\ profile.last_goal_date = DateOf(now)

-----------------------------------------------------------------------------
(* useGameLoop: the time to the end of the day and the state derived from it.
   Durations are in milliseconds.  The fractions the code computes are kept
   exact as integers: timeIntensity and scoreIntensity in tenths, the intensity
   value in hundredths, momentumStrength in thirtieths, threatLevel in units
   of 1 / (2 * totalDayMs). *)

totalDayMs == 24 * 60 * 60 * 1000
msPerHour == 1000 * 60 * 60

Min(a, b) == IF a <= b THEN a ELSE b
Abs(a) == IF a >= 0 THEN a ELSE 0 - a

\* dayEndTime: the hours and minutes of "HH:MM"; nowOfDay: new Date(), in
\* milliseconds since the local midnight before it; localDay: the time from
\* today's end of day to the same local time tomorrow, which is what
\* eod.setDate(eod.getDate() + 1) adds (a local day is 24 hours, or 23 or 25
\* when the zone changes its clocks in between)
calculateTimeToEOD(dayEndTime, nowOfDay, localDay) ==
    LET eod == (dayEndTime.hours * 60 + dayEndTime.minutes) * 60 * 1000
        rolled == IF eod <= nowOfDay THEN eod + localDay ELSE eod
    IN  Max(0, rolled - nowOfDay)

\* formatTimeRemaining without the minutes of a whole hour: the variant that
\* prints "2h" (C20 must tell it from the function)
formatTimeRemaining_short(ms) ==
    IF ms <= 0 THEN "0m"
    ELSE LET totalSeconds == ms \div 1000
             hours == totalSeconds \div 3600
             minutes == (totalSeconds % 3600) \div 60
             seconds == totalSeconds % 60
         IN  IF hours > 0
             THEN IF minutes > 0
                  THEN ToString(hours) \o "h " \o ToString(minutes) \o "m"
                  ELSE ToString(hours) \o "h"
             ELSE IF minutes > 0
                  THEN ToString(minutes) \o "m " \o ToString(seconds) \o "s"
                  ELSE ToString(seconds) \o "s"

formatTimeRemaining(ms) ==
    IF ms <= 0 THEN "0m"
    ELSE LET totalSeconds == ms \div 1000
             hours == totalSeconds \div 3600
             minutes == (totalSeconds % 3600) \div 60
             seconds == totalSeconds % 60
         IN  IF hours > 0
             THEN ToString(hours) \o "h " \o ToString(minutes) \o "m"
             ELSE IF minutes > 0
                  THEN ToString(minutes) \o "m " \o ToString(seconds) \o "s"
                  ELSE ToString(seconds) \o "s"

\* timeIntensity with its steps in the opposite order: the variant that calms
\* down as the boundary nears (C14 must tell it from the function)
timeIntensity_reversed(timeToEOD) ==
    IF 4 * timeToEOD < msPerHour THEN 2
    ELSE IF 2 * timeToEOD < msPerHour THEN 4
    ELSE IF timeToEOD < msPerHour THEN 6
    ELSE IF timeToEOD < 2 * msPerHour THEN 8
    ELSE 10

\* calculateIntensity, timeIntensity (tenths); hoursLeft = timeToEOD / msPerHour
timeIntensity(timeToEOD) ==
    IF 4 * timeToEOD < msPerHour THEN 10
    ELSE IF 2 * timeToEOD < msPerHour THEN 8
    ELSE IF timeToEOD < msPerHour THEN 6
    ELSE IF timeToEOD < 2 * msPerHour THEN 4
    ELSE 2

\* scoreIntensity with scoreDiff <= 0 in its third test: the variant for which
\* a tie counts as losing (C15 must tell it from the function)
scoreIntensity_tieLoses(scoreDiff) ==
    IF scoreDiff < 0 - 20 THEN 8
    ELSE IF scoreDiff < 0 - 10 THEN 5
    ELSE IF scoreDiff <= 0 THEN 3
    ELSE 1

\* scoreIntensity counting the size of the margin on either side: the variant
\* for which a large lead escalates too (C25 must tell it from the function)
scoreIntensity_eitherSide(scoreDiff) ==
    IF Abs(scoreDiff) > 20 THEN 8
    ELSE IF Abs(scoreDiff) > 10 THEN 5
    ELSE IF scoreDiff < 0 THEN 3
    ELSE 1

\* calculateIntensity, scoreIntensity (tenths)
scoreIntensity(scoreDiff) ==
    IF scoreDiff < 0 - 20 THEN 8
    ELSE IF scoreDiff < 0 - 10 THEN 5
    ELSE IF scoreDiff < 0 THEN 3
    ELSE 1

\* the levels with > for >=: the variant that puts each threshold in the
\* lower level (C13 must tell it from the function)
intensityLevel_exclusive(value) ==
    IF value > 80 THEN "critical"
    ELSE IF value > 50 THEN "high"
    ELSE IF value > 30 THEN "medium"
    ELSE "low"

\* calculateIntensity, the discrete level of a value (hundredths)
intensityLevel(value) ==
    IF value >= 80 THEN "critical"
    ELSE IF value >= 50 THEN "high"
    ELSE IF value >= 30 THEN "medium"
    ELSE "low"

calculateIntensity(timeToEOD, userPoints, aiPoints) ==
    LET scoreDiff == userPoints - aiPoints
        value == Min(100, timeIntensity(timeToEOD) * 6 + scoreIntensity(scoreDiff) * 4)
    IN  [level |-> intensityLevel(value), value |-> value]

\* the momentum without its band around parity: the variant that follows
\* whoever leads by a point (C16 must tell it from the function)
momentum_noBand(userPoints, aiPoints) ==
    LET scoreDiff == userPoints - aiPoints
    IN  IF scoreDiff > 0
        THEN [momentum |-> "user", momentumStrength |-> Min(30, scoreDiff)]
        ELSE IF scoreDiff < 0
             THEN [momentum |-> "ai", momentumStrength |-> Min(30, Abs(scoreDiff))]
             ELSE [momentum |-> "neutral", momentumStrength |-> 0]

\* gameLoopState, momentum and momentumStrength (thirtieths)
momentum(userPoints, aiPoints) ==
    LET scoreDiff == userPoints - aiPoints
    IN  IF scoreDiff > 5
        THEN [momentum |-> "user", momentumStrength |-> Min(30, scoreDiff)]
        ELSE IF scoreDiff < 0 - 5
             THEN [momentum |-> "ai", momentumStrength |-> Min(30, Abs(scoreDiff))]
             ELSE [momentum |-> "neutral", momentumStrength |-> 0]

\* threatLevel with the score counted on either side: the variant for which
\* a lead threatens as a deficit does (C17 must tell it from the function)
threatLevel_eitherSide(timeToEOD, userPoints, aiPoints) ==
    LET scoreDiff == userPoints - aiPoints
        timeTheat == 2 * (totalDayMs - timeToEOD)
        scoreTheat == ((2 * totalDayMs) \div 50) * Min(50, Abs(scoreDiff))
    IN  Min(2 * totalDayMs, (timeTheat + scoreTheat) \div 2)

\* gameLoopState, threatLevel (units of 1 / (2 * totalDayMs)):
\* timeTheat = 1 - timeToEOD / totalDayMs, scoreTheat = min(1, |scoreDiff| / 50)
\* when scoreDiff < 0, threatLevel = min(1, timeTheat * 0.5 + scoreTheat * 0.5)
threatLevel(timeToEOD, userPoints, aiPoints) ==
    LET scoreDiff == userPoints - aiPoints
        timeTheat == 2 * (totalDayMs - timeToEOD)
        scoreTheat == IF scoreDiff < 0
                      THEN ((2 * totalDayMs) \div 50) * Min(50, Abs(scoreDiff))
                      ELSE 0
    IN  Min(2 * totalDayMs, (timeTheat + scoreTheat) \div 2)

\* the day_end_time settings GameArena passes on, "HH:MM"
LoopDayEndTimes ==
    {[hours |-> 23, minutes |-> 0], [hours |-> 0, minutes |-> 0],
     [hours |-> 12, minutes |-> 30]}

\* the instants of the day at which the hook is run: around 23:00, by these
\* many milliseconds before it, and elsewhere in the day
LoopBefore ==
    {0, 1, 5000, 600000, 899999, 900000, 1799999, 1800000, 2700000,
     3599999, 3600000, 7199999, 7200000}
LoopNow ==
    {23 * msPerHour - b : b \in LoopBefore}
    \cup {0, 23 * msPerHour + 1, 12 * msPerHour + 30 * 60 * 1000, totalDayMs - 1}

\* the scores: userPoints 30 against aiPoints at these margins
LoopMargins ==
    {0 - 51, 0 - 50, 0 - 30, 0 - 29, 0 - 21, 0 - 20, 0 - 11, 0 - 10, 0 - 6, 0 - 5,
     0 - 1, 0, 5, 6, 29, 30}
LoopAiPoints == {30 - m : m \in LoopMargins}

\* the lengths of a local day
LocalDays == {23 * msPerHour, totalDayMs, 25 * msPerHour}

NoLoopState ==
    [formattedTimeToEOD |-> "", intensity |-> "", intensityValue |-> NULL,
     momentum |-> "", momentumStrength |-> NULL, threatLevel |-> NULL]

InitLoop ==
    /\ Parked
    /\ fin \in [dayEndTime : LoopDayEndTimes, nowOfDay : LoopNow,
                localDay : LocalDays, userPoints : {30}, aiPoints : LoopAiPoints,
                timeToEOD : {NULL}, state : {NoLoopState}]

\* updateTime: setTimeToEOD(calculateTimeToEOD(dayEndTime, timezone))
updateTime ==
    /\ fin.timeToEOD = NULL
    /\ fin' = [fin EXCEPT !.timeToEOD = calculateTimeToEOD(fin.dayEndTime, fin.nowOfDay,
                                                         fin.localDay)]
    /\ UNCHANGED ParkedVars

\* gameLoopState: the useMemo over timeToEOD, userPoints, aiPoints
gameLoopState ==
    /\ fin.timeToEOD # NULL
    /\ fin.state = NoLoopState
    /\ LET i == calculateIntensity(fin.timeToEOD, fin.userPoints, fin.aiPoints)
           m == momentum(fin.userPoints, fin.aiPoints)
       IN  fin' = [fin EXCEPT !.state =
                      [formattedTimeToEOD |-> formatTimeRemaining(fin.timeToEOD),
                       intensity |-> i.level,
                       intensityValue |-> i.value,
                       momentum |-> m.momentum,
                       momentumStrength |-> m.momentumStrength,
                       threatLevel |-> threatLevel(fin.timeToEOD, fin.userPoints,
                                                   fin.aiPoints)]]
    /\ UNCHANGED ParkedVars

NextLoop == updateTime \/ gameLoopState

SpecLoop == InitLoop /\ [][NextLoop]_vars

\* the durations updateTime can store
LoopTimes ==
    {calculateTimeToEOD(e, n, d) : e \in LoopDayEndTimes, n \in LoopNow, d \in LocalDays}

Derived == fin.state # NoLoopState
Margin == fin.userPoints - fin.aiPoints

LevelRank(level) ==
    CASE level = "low" -> 0 [] level = "medium" -> 1
      [] level = "high" -> 2 [] level = "critical" -> 3

\* C13: the intensity value is min(1, 0.6 t + 0.4 s), t being 1.0 / 0.8 / 0.6 /
\* 0.4 / 0.2 for less than 0.25 / 0.5 / 1 / 2 hours left / otherwise and s being
\* 0.8 / 0.5 / 0.3 / 0.1 for a margin below -20 / -10 / 0 / otherwise; it lies in
\* [0, 1]; the level is critical from 0.8, high from 0.5, medium from 0.3, else
\* low, each threshold in the higher level.
C13_IntensityValueAndLevel ==
    Derived =>
        LET t == IF fin.timeToEOD < 900000 THEN 10
                 ELSE IF fin.timeToEOD < 1800000 THEN 8
                 ELSE IF fin.timeToEOD < 3600000 THEN 6
                 ELSE IF fin.timeToEOD < 7200000 THEN 4 ELSE 2
            sc == IF Margin < 0 - 20 THEN 8
                  ELSE IF Margin < 0 - 10 THEN 5
                  ELSE IF Margin < 0 THEN 3 ELSE 1
            v == fin.state.intensityValue
        IN  /\ v = (IF 6 * t + 4 * sc <= 100 THEN 6 * t + 4 * sc ELSE 100)
            /\ 0 <= v /\ v <= 100
            /\ fin.state.intensity =
                  (IF v >= 80 THEN "critical" ELSE IF v >= 50 THEN "high"
                   ELSE IF v >= 30 THEN "medium" ELSE "low")

\* C13, its case: 10 minutes left at 30 - 30 gives 0.64 and high
C13_Witness ==
    /\ fin.timeToEOD = 600000 /\ fin.userPoints = 30 /\ fin.aiPoints = 30
    /\ fin.state.intensityValue = 64 /\ fin.state.intensity = "high"

\* C14: for fixed scores the intensity value, and so the level, does not
\* decrease as the time left decreases.
C14_IntensityMonotonicInTime ==
    Derived =>
        \A less \in LoopTimes :
            less < fin.timeToEOD =>
                LET i == calculateIntensity(less, fin.userPoints, fin.aiPoints)
                IN  /\ i.value >= fin.state.intensityValue
                    /\ LevelRank(i.level) >= LevelRank(fin.state.intensity)

\* C14, its case: two hours left give low, ten minutes left at the same
\* scores give high
C14_Witness ==
    /\ fin.timeToEOD = 7200000 /\ Margin = 0 /\ fin.state.intensity = "low"
    /\ calculateIntensity(600000, fin.userPoints, fin.aiPoints).level = "high"

\* C15: for fixed time left the intensity value does not decrease as the
\* user's margin decreases, and is the same for every margin >= 0.
C15_IntensityMonotonicInMargin ==
    Derived =>
        \A ai \in LoopAiPoints :
            LET v == calculateIntensity(fin.timeToEOD, fin.userPoints, ai).value
                m == fin.userPoints - ai
            IN  /\ m < Margin => v >= fin.state.intensityValue
                /\ (m >= 0 /\ Margin >= 0) => v = fin.state.intensityValue

\* C15, its case: a tie computed, against a lead of 30 (the same value) and a
\* deficit of 21 (a higher one)
C15_Witness ==
    /\ Derived /\ Margin = 0
    /\ calculateIntensity(fin.timeToEOD, fin.userPoints, 0).value
           = fin.state.intensityValue
    /\ calculateIntensity(fin.timeToEOD, fin.userPoints, 51).value
           > fin.state.intensityValue

\* C16: with margin = userPoints - aiPoints the momentum is user iff margin > 5,
\* ai iff margin < -5, neutral iff -5 <= margin <= 5; the strength is 0 exactly
\* when neutral and otherwise min(1, |margin| / 30), in (0, 1] and 1 iff
\* |margin| >= 30; exchanging the scores exchanges user and ai and keeps the
\* strength.
C16_MomentumDeadZone ==
    Derived =>
        LET dir == fin.state.momentum
            str == fin.state.momentumStrength
            size == IF Margin >= 0 THEN Margin ELSE 0 - Margin
            other == momentum(fin.aiPoints, fin.userPoints)
        IN  /\ (dir = "user") = (Margin > 5)
            /\ (dir = "ai") = (Margin < 0 - 5)
            /\ (dir = "neutral") = (0 - 5 <= Margin /\ Margin <= 5)
            /\ (str = 0) = (dir = "neutral")
            /\ dir # "neutral" =>
                  /\ str = (IF size <= 30 THEN size ELSE 30)
                  /\ 0 < str /\ str <= 30
                  /\ (str = 30) = (size >= 30)
            /\ other.momentumStrength = str
            /\ other.momentum = (IF dir = "user" THEN "ai"
                                 ELSE IF dir = "ai" THEN "user" ELSE "neutral")

\* C16, its case: a deficit of 29 gives ai at strength 29/30, the scores
\* exchanged give user at the same strength
C16_Witness ==
    /\ Derived /\ Margin = 0 - 29
    /\ fin.state.momentum = "ai" /\ fin.state.momentumStrength = 29
    /\ momentum(fin.aiPoints, fin.userPoints).momentum = "user"

\* C17 as stated: the threat level is zero whenever userPoints >= aiPoints,
\* whatever the time left.
C17_ZeroThreatWhenNotBehind ==
    (Derived /\ fin.userPoints >= fin.aiPoints) => fin.state.threatLevel = 0

\* C17 as amended: whenever userPoints >= aiPoints the score adds nothing to
\* the threat level, which is then 0.5 * (1 - timeToEOD / 24h): zero only
\* when a whole day is left.
C17_OnlyTimeThreatWhenNotBehind ==
    (Derived /\ fin.userPoints >= fin.aiPoints) =>
        /\ fin.state.threatLevel = totalDayMs - fin.timeToEOD
        /\ (fin.state.threatLevel = 0) = (fin.timeToEOD = totalDayMs)

\* C17, its case: the user leads by 30 with an hour left and the threat
\* level is 0.5 * 23/24
C17_Witness ==
    /\ Derived /\ Margin = 30 /\ fin.timeToEOD = msPerHour
    /\ fin.state.threatLevel = 23 * msPerHour

\* C18: the threat level lies in [0, 1] for every duration updateTime can
\* store, does not decrease as the duration decreases for fixed scores, and
\* does not decrease as the user's deficit grows for fixed duration.
C18_ThreatBoundedMonotonic ==
    Derived =>
        /\ 0 <= fin.state.threatLevel
        /\ fin.state.threatLevel <= 2 * totalDayMs
        /\ \A less \in LoopTimes :
              less < fin.timeToEOD =>
                  threatLevel(less, fin.userPoints, fin.aiPoints)
                      >= fin.state.threatLevel
        /\ \A ai \in LoopAiPoints :
              fin.userPoints - ai < Margin =>
                  threatLevel(fin.timeToEOD, fin.userPoints, ai)
                      >= fin.state.threatLevel

\* C19: calculateTimeToEOD is never negative: it is max(0, boundary - now),
\* the boundary being today's end of day if that is after now and the same
\* time on the next calendar day otherwise (also when equal to now); it never
\* exceeds one day (24 hours).
C19_TimeToEODNonNegative ==
    fin.timeToEOD # NULL =>
        LET today == (fin.dayEndTime.hours * 60 + fin.dayEndTime.minutes) * 60000
            boundary == IF today > fin.nowOfDay THEN today ELSE today + fin.localDay
            left == boundary - fin.nowOfDay
        IN  /\ fin.timeToEOD >= 0
            /\ fin.timeToEOD = (IF left >= 0 THEN left ELSE 0)
            /\ fin.timeToEOD <= 86400000

-----------------------------------------------------------------------------
(* formatTimeRemaining, over durations given by their parts *)

\* durations of h hours, m minutes, s seconds and r milliseconds, and two
\* that are not positive beside 0
FormatInputs ==
    [h : {0, 1, 2, 25}, m : {0, 1, 59}, s : {0, 5, 59}, r : {0, 999}]
    \cup [h : {0}, m : {0}, s : {0}, r : {0 - 1000, 0 - 1}]

InitFormat ==
    /\ Parked
    /\ fin \in {[parts |-> x,
                 ms |-> ((x.h * 60 + x.m) * 60 + x.s) * 1000 + x.r,
                 text |-> "none"] : x \in FormatInputs}

\* formattedTimeToEOD: formatTimeRemaining(timeToEOD)
formatStep ==
    /\ fin.text = "none"
    /\ fin' = [fin EXCEPT !.text = formatTimeRemaining(fin.ms)]
    /\ UNCHANGED ParkedVars

SpecFormat == InitFormat /\ [][formatStep]_vars

\* C20: formatTimeRemaining gives "0m" for a duration <= 0; "{h}h {m}m" from
\* one hour (seconds dropped, minutes printed even when 0); "{m}m {s}s" from
\* one minute to under an hour; "{s}s" for a positive duration under a minute;
\* h, m, s being the whole hours, minutes (0-59) and seconds (0-59), unpadded.
C20_FormatTimeRemaining ==
    fin.text # "none" =>
        LET x == fin.parts
        IN  fin.text =
                IF fin.ms <= 0 THEN "0m"
                ELSE IF fin.ms >= 3600000
                     THEN ToString(x.h) \o "h " \o ToString(x.m) \o "m"
                     ELSE IF fin.ms >= 60000
                          THEN ToString(x.m) \o "m " \o ToString(x.s) \o "s"
                          ELSE ToString(x.s) \o "s"

\* C20, its case: two hours to the millisecond are printed with their
\* minutes, "2h 0m"
C20_Witness ==
    /\ fin.ms = 7200000
    /\ fin.text = "2h 0m"

-----------------------------------------------------------------------------
(* Further properties of calculateIntensity, checked under SpecLoop *)

\* what C25 says of the critical level and of the range of the value
CriticalOnlyWhenBehindAndLate ==
    /\ fin.state.intensity = "critical" =>
          (Margin < 0 - 10 /\ fin.timeToEOD < 30 * 60 * 1000)
    /\ fin.userPoints >= fin.aiPoints => fin.state.intensity # "critical"
    /\ 16 <= fin.state.intensityValue /\ fin.state.intensityValue <= 92
    /\ fin.state.intensityValue =
          timeIntensity(fin.timeToEOD) * 6 + scoreIntensity(Margin) * 4

\* C25 as stated: critical only when the user is behind by more than 10 with
\* less than 30 minutes left, never when userPoints >= aiPoints; the value in
\* [0.16, 0.92], so the clamp at 1 never acts; low only with at least 2 hours
\* left.
C25_CriticalAndLowRegions ==
    Derived =>
        /\ CriticalOnlyWhenBehindAndLate
        /\ fin.state.intensity = "low" => fin.timeToEOD >= 2 * msPerHour

\* C25 as amended: the same, but low occurs only with at least 1 hour left,
\* and with less than 2 hours left only when the user is not behind.
C25_LowFromOneHour ==
    Derived =>
        /\ CriticalOnlyWhenBehindAndLate
        /\ fin.state.intensity = "low" =>
              /\ fin.timeToEOD >= msPerHour
              /\ fin.timeToEOD < 2 * msPerHour => Margin >= 0

\* C25, its case: a tie with just under two hours left is low, at 0.28
C25_Witness ==
    /\ Derived /\ Margin = 0 /\ fin.timeToEOD = 2 * msPerHour - 1
    /\ fin.state.intensity = "low" /\ fin.state.intensityValue = 28

-----------------------------------------------------------------------------
(* Missed goals and the streak, checked under SpecStreak *)

StreakFields(prof) ==
    <<prof.current_streak, prof.longest_streak, prof.last_goal_date>>

\* C28: a step that marks goals missed, by the trigger or by the periodic
\* check, leaves current_streak, longest_streak and last_goal_date as they
\* were; only a completion by the user changes them.
C28_MissedLeavesStreak ==
    [][/\ ev'.marked # {} => StreakFields(profile') = StreakFields(profile)
       /\ StreakFields(profile') # StreakFields(profile) =>
             \E g \in GoalIds :
                 /\ ~goals[g].completed /\ goals'[g].completed
                 /\ g \notin ev'.marked]_vars

-----------------------------------------------------------------------------
(* The streak over several days: a new profile, and on each day new goals the
   user completes or leaves *)

MaxDays == 5
MaxGap == 2

\* the days go by: it is 00:00 of the k-th day after today, and the goals of
\* that day are inserted in place of those of the day left
DayPasses(k) ==
    /\ \A c \in Clients : pc[c] = "idle"
    /\ DateOf(now) + k <= MaxDays
    /\ now' = Instant(DateOf(now) + k, 0)
    /\ goals' = [g \in GoalIds |-> InsertedGoal(<<"long_term", NULL, NULL>>, now')]
    /\ view_goals' = [c \in Clients |-> [g \in GoalIds |-> GoalView(goals'[g])]]
    /\ ev' = NoEvent
    /\ UNCHANGED <<tz, profile, view_profile, pending, pc, sweepQ, cron, fin>>

InitDays ==
    /\ now = Epoch
    /\ tz = 0
    /\ goals = [g \in GoalIds |-> InsertedGoal(<<"long_term", NULL, NULL>>, Epoch)]
    /\ profile \in {[total_points |-> 0, ai_points |-> 0, day_end_time |-> d,
                     current_streak |-> 0, longest_streak |-> 0,
                     last_goal_date |-> NULL] : d \in DayEndChoices}
    /\ view_goals = [c \in Clients |-> [g \in GoalIds |-> GoalView(goals[g])]]
    /\ view_profile = [c \in Clients |-> ProfileView(profile)]
    /\ pc = [c \in Clients |-> "idle"]
    /\ pending = [c \in Clients |-> NoPending]
    /\ sweepQ = [c \in Clients |-> {}]
    /\ cron = [s \in Sessions |-> NoCron]
    /\ ev = NoEvent
    /\ fin = <<>>

NextDays ==
    \/ \E c \in Clients, g \in GoalIds : handleCompleteGoal(c, g)
    \/ \E c \in Clients : CompleteProfile(c)
    \/ \E k \in 1 .. MaxGap : DayPasses(k)

SpecDays == InitDays /\ [][NextDays]_vars

\* C27: from a new profile and under any completions on dates that do not
\* decrease: longest_streak >= current_streak; longest_streak never decreases;
\* current_streak >= 1 whenever last_goal_date is set; current_streak changes
\* at most once per calendar day (only when no completion of today is
\* recorded yet, and the change records today).
C27_StreakInvariants ==
    /\ [](/\ profile.longest_streak >= profile.current_streak
          /\ profile.last_goal_date # NULL => profile.current_streak >= 1)
    /\ [][/\ profile'.longest_streak >= profile.longest_streak
          /\ profile'.current_streak # profile.current_streak =>
                /\ DateOf(now') = DateOf(now)
                /\ profile.last_goal_date # DateOf(now)
                /\ profile'.last_goal_date = DateOf(now)
          /\ (DateOf(now') = DateOf(now) /\ profile.last_goal_date = DateOf(now)) =>
                StreakFields(profile') = StreakFields(profile)]_vars

\* C27, its case: a streak of two days was broken by a day without a
\* completion, and the second completion of the day it restarted on is made
C27_Witness ==
    /\ profile.longest_streak = 2 /\ profile.current_streak = 1
    /\ profile.last_goal_date = DateOf(now)
    /\ \A g \in GoalIds : goals[g].completed

-----------------------------------------------------------------------------
(* The day-end time each part of the program works with.  A time of day is in
   milliseconds after 00:00; profiles.day_end_time is a time of day or NULL. *)

HM(hours, minutes) == (hours * 60 + minutes) * 60 * 1000

\* Settings.handleSave: the times of day a user stores as day_end_time
StoredDayEndTimes == {HM(23, 59), HM(23, 0), HM(18, 30)}

\* Dashboard renders GameArena without a dayEndTime prop
DashboardDayEndTimeProp(prof) == NULL

\* GameArena: the dayEndTime it hands to useGameLoop, "23:00" by default
GameArenaDayEndTime(prop) == IF prop = NULL THEN HM(23, 0) ELSE prop

\* checkEndOfDay: profile.day_end_time || "23:00"
checkEndOfDayDayEndTime(prof) ==
    IF prof.day_end_time # NULL THEN prof.day_end_time ELSE HM(23, 0)

\* handleMissedGoals: profile.day_end_time || "23:59"
handleMissedGoalsDayEndTime(prof) ==
    IF prof.day_end_time # NULL THEN prof.day_end_time ELSE HM(23, 59)

\* process_missed_goal, check_all_overdue_goals: COALESCE(day_end_time, '23:59:00')
user_day_end_time(prof) ==
    IF prof.day_end_time # NULL THEN prof.day_end_time ELSE HM(23, 59)

\* handleCompleteGoal: dueDate.setHours(23, 59, 59) for a due date without a time
handleCompleteGoalEndOfDay(prof) == HM(23, 59) + 59 * 1000

DayEndSites ==
    {"useGameLoop", "checkEndOfDay", "handleMissedGoals", "process_missed_goal",
     "handleCompleteGoal"}

DayEndTimeAt(site, prof) ==
    CASE site = "useGameLoop" -> GameArenaDayEndTime(DashboardDayEndTimeProp(prof))
      [] site = "checkEndOfDay" -> checkEndOfDayDayEndTime(prof)
      [] site = "handleMissedGoals" -> handleMissedGoalsDayEndTime(prof)
      [] site = "process_missed_goal" -> user_day_end_time(prof)
      [] site = "handleCompleteGoal" -> handleCompleteGoalEndOfDay(prof)

MaxSaves == 1

\* fin = [day_end_time, used, saves]: the stored day-end time, for each site
\* the day-end time it worked with when it last ran (NULL: not run since the
\* day-end time was stored), and the number of times Settings stored one
InitDayEnd ==
    /\ Parked
    /\ fin \in [day_end_time : StoredDayEndTimes \cup {NULL},
                used : {[site \in DayEndSites |-> NULL]},
                saves : {0}]

\* a site runs and reads the day-end time
UseDayEnd(site) ==
    /\ fin.used[site] = NULL
    /\ fin' = [fin EXCEPT !.used[site] = DayEndTimeAt(site, fin)]
    /\ UNCHANGED ParkedVars

\* Settings.handleSave stores another day-end time
SaveDayEnd(t) ==
    /\ fin.day_end_time # t
    /\ fin.saves < MaxSaves
    /\ fin' = [day_end_time |-> t, used |-> [site \in DayEndSites |-> NULL],
               saves |-> fin.saves + 1]
    /\ UNCHANGED ParkedVars

NextDayEnd ==
    \/ \E site \in DayEndSites : UseDayEnd(site)
    \/ \E t \in StoredDayEndTimes : SaveDayEnd(t)

SpecDayEnd == InitDayEnd /\ [][NextDayEnd]_vars

\* C23: one day-end time is used everywhere: the game loop, the end-of-day
\* check, the sweep, the SQL deadlines and the end-of-day bound of
\* handleCompleteGoal work with the same value, the stored one or, when none
\* is stored, one and the same fallback.
C23_OneDayEndTime ==
    /\ \A a, b \in DayEndSites :
          (fin.used[a] # NULL /\ fin.used[b] # NULL) => fin.used[a] = fin.used[b]
    /\ \A a \in DayEndSites :
          (fin.used[a] # NULL /\ fin.day_end_time # NULL) =>
              fin.used[a] = fin.day_end_time

-----------------------------------------------------------------------------
(* calculateTimeToEOD on the string it is given.  A string is a sequence of
   characters; NaN stands for the Number that is not a number. *)

NaN == 0 - 2000000000

Digits == <<"0", "1", "2", "3", "4", "5", "6", "7", "8", "9">>
IsDigit(ch) == \E i \in 1 .. 10 : Digits[i] = ch
DigitValue(ch) == (CHOOSE i \in 1 .. 10 : Digits[i] = ch) - 1

RECURSIVE DecimalValue(_)
DecimalValue(str) ==
    IF str = <<>> THEN 0
    ELSE DecimalValue(SubSeq(str, 1, Len(str) - 1)) * 10 + DigitValue(str[Len(str)])

\* Number(s) of a string of these characters: "" is 0, digits are their
\* decimal value, anything else is NaN
Number(str) ==
    IF \A i \in 1 .. Len(str) : IsDigit(str[i]) THEN DecimalValue(str) ELSE NaN

\* str.split(":")
RECURSIVE Split(_)
Split(str) ==
    IF \A i \in 1 .. Len(str) : str[i] # ":" THEN <<str>>
    ELSE LET i == CHOOSE j \in 1 .. Len(str) :
                      str[j] = ":" /\ \A k \in 1 .. j - 1 : str[k] # ":"
         IN  <<SubSeq(str, 1, i - 1)>> \o Split(SubSeq(str, i + 1, Len(str)))

\* const [hours, minutes] = dayEndTime.split(":").map(Number); a missing
\* second part is undefined, which setHours takes as NaN
ParseHoursMinutes(str) ==
    LET parts == Split(str)
    IN  [hours |-> Number(parts[1]),
         minutes |-> IF Len(parts) >= 2 THEN Number(parts[2]) ELSE NaN]

\* calculateTimeToEOD(dayEndTime: string): with hours or minutes NaN the Date
\* is invalid, its getTime() is NaN, eod <= now is false and Math.max(0, NaN)
\* is NaN; hours above 23 and minutes above 59 carry over, as setHours does
calculateTimeToEODOfString(str, nowOfDay, localDay) ==
    LET hm == ParseHoursMinutes(str)
    IN  IF hm.hours = NaN \/ hm.minutes = NaN THEN NaN
        ELSE calculateTimeToEOD(hm, nowOfDay, localDay)

\* calculateIntensity of a time that may be NaN: every test hoursLeft < x is
\* false and timeIntensity is 0.2
calculateIntensityOfNumber(timeToEOD, userPoints, aiPoints) ==
    IF timeToEOD = NaN
    THEN LET value == Min(100, 2 * 6 + scoreIntensity(userPoints - aiPoints) * 4)
         IN  [level |-> intensityLevel(value), value |-> value]
    ELSE calculateIntensity(timeToEOD, userPoints, aiPoints)

\* formatTimeRemaining of a time that may be NaN: ms <= 0, hours > 0 and
\* minutes > 0 are false and the seconds are printed
formatTimeRemainingOfNumber(ms) ==
    IF ms = NaN THEN "NaNs" ELSE formatTimeRemaining(ms)

DayEndStrings ==
    {<<"2", "3", ":", "0", "0">>, <<"2", "3", ":", "5", "9">>,
     <<"0", "0", ":", "0", "0">>, <<"1", "2", ":", "3", "0">>,
     <<"2", "3", ":", "0", "0", ":", "0", "0">>,
     <<>>, <<"2", "3">>, <<"a", "b", ":", "c", "d">>,
     <<"2", "3", ":", "x", "x">>, <<":", "3", "0">>,
     <<"2", "5", ":", "0", "0">>, <<"2", "3", ":", "7", "5">>}

ParseNow == {0, 12 * msPerHour, 22 * msPerHour + 30 * 60 * 1000, 23 * msPerHour,
             totalDayMs - 1}

NoHookResult == [raised |-> "", timeToEOD |-> NULL, formattedTimeToEOD |-> "",
                 intensity |-> "", intensityValue |-> NULL]

InitParse ==
    /\ Parked
    /\ fin \in [dayEndTime : DayEndStrings, nowOfDay : ParseNow, result : {NoHookResult}]

\* useGameLoop run on the string: updateTime and gameLoopState; nothing in
\* them throws
useGameLoopOfString ==
    /\ fin.result = NoHookResult
    /\ LET t == calculateTimeToEODOfString(fin.dayEndTime, fin.nowOfDay, totalDayMs)
           i == calculateIntensityOfNumber(t, 0, 0)
       IN  fin' = [fin EXCEPT !.result =
                      [raised |-> "none", timeToEOD |-> t,
                       formattedTimeToEOD |-> formatTimeRemainingOfNumber(t),
                       intensity |-> i.level, intensityValue |-> i.value]]
    /\ UNCHANGED ParkedVars

SpecParse == InitParse /\ [][useGameLoopOfString]_vars

\* a day boundary "HH:MM" or "HH:MM:SS": two digits each, HH at most 23, MM
\* and SS at most 59
WellFormedDayEnd(str) ==
    LET parts == Split(str)
    IN  /\ Len(parts) \in {2, 3}
        /\ \A i \in 1 .. Len(parts) : Len(parts[i]) = 2 /\ Number(parts[i]) # NaN
        /\ Number(parts[1]) <= 23
        /\ \A i \in 2 .. Len(parts) : Number(parts[i]) <= 59

\* C24: a malformed day-boundary string is rejected at once with
\* InvalidConfiguration: no time to the boundary and no intensity come out of
\* it.
C24_MalformedRejected ==
    (fin.result # NoHookResult /\ ~WellFormedDayEnd(fin.dayEndTime)) =>
        /\ fin.result.raised = "InvalidConfiguration"
        /\ fin.result.timeToEOD = NULL
        /\ fin.result.intensity = ""

-----------------------------------------------------------------------------
(* The timers of useGameLoop.  Time is in milliseconds since the hook was
   mounted; a timer is due at an instant and fires then.  fin is the hook:
     mounted, isActive, userPoints, aiPoints   the component and its props
     eodAt                    the instant of the day boundary (the dayEndTime prop)
     now, timeToEOD, pulse, beatCount          the clock and the hook's state
     countdownTimers, beatTimers               the live intervals [id, due, every]
     frames                                    the animation frames requested
     interval, beatHandle, animationFrame      what each cleanup cancels
     startTime                                 of the pulse effect
     beatsSinceTick, undisturbed, changes, beatsAtActivation   history *)

MaxCountdownTicks == 3
MaxChanges == 2
MaxTime == MaxCountdownTicks * 1000
TimerStep == 1000 \div 2
TimerIds == 1 .. 4

\* the beat interval that is never shorter than the countdown period: the
\* variant whose beats the countdown keeps cancelling (C26 must tell it from
\* the hook's)
beatInterval_slow(intensityValue) == 1000 + intensityValue * 7

\* beatInterval = 1000 - intensityValue * 700, intensityValue in hundredths
beatInterval(intensityValue) == 1000 - intensityValue * 7

\* cycleDuration = 400 - intensityValue * 250
cycleDuration(intensityValue) == 400 - (intensityValue * 5) \div 2

FreshId(timers) == CHOOSE i \in TimerIds :
    /\ \A t \in timers : t.id # i
    /\ \A j \in TimerIds : (\A t \in timers : t.id # j) => i <= j

IntensityValueOf(f) == calculateIntensity(f.timeToEOD, f.userPoints, f.aiPoints).value

\* the countdown effect: updateTime(); setInterval(updateTime, 1000)
countdownEffect(f) ==
    LET id == FreshId(f.countdownTimers)
    IN  [f EXCEPT !.timeToEOD = f.eodAt - f.now,
                  !.countdownTimers = @ \cup {[id |-> id, due |-> f.now + 1000,
                                               every |-> 1000]},
                  !.interval = id]

\* its cleanup: clearInterval(interval)
countdownCleanup(f) ==
    [f EXCEPT !.countdownTimers = {t \in @ : t.id # f.interval},
              !.interval = NULL]

\* the pulse effect: nothing unless isActive; requestAnimationFrame(animate)
pulseEffect(f) ==
    IF ~f.isActive THEN f
    ELSE LET id == FreshId(f.frames)
         IN  [f EXCEPT !.startTime = f.now,
                       !.frames = @ \cup {[id |-> id]},
                       !.animationFrame = id]

\* its cleanup: cancelAnimationFrame(animationFrame)
pulseCleanup(f) ==
    [f EXCEPT !.frames = {t \in @ : t.id # f.animationFrame},
              !.animationFrame = NULL]

\* the beat effect: nothing unless isActive; setInterval(beat, beatInterval)
beatEffect(f) ==
    IF ~f.isActive THEN f
    ELSE LET id == FreshId(f.beatTimers)
             every == beatInterval(IntensityValueOf(f))
         IN  [f EXCEPT !.beatTimers = @ \cup {[id |-> id, due |-> f.now + every,
                                               every |-> every]},
                       !.beatHandle = id]

\* its cleanup: clearInterval(interval)
beatCleanup(f) ==
    [f EXCEPT !.beatTimers = {t \in @ : t.id # f.beatHandle},
              !.beatHandle = NULL]

\* a render in which isActive, timeToEOD, userPoints or aiPoints changed: the
\* cleanups of the pulse and beat effects, then the effects
rerunEffects(f) == beatEffect(beatCleanup(pulseEffect(pulseCleanup(f))))

TimerEodAt == {902000, 10000000}
TimerAiPoints == {30, 60}

InitTimers ==
    /\ Parked
    /\ \E e \in TimerEodAt, a \in TimerAiPoints, act \in BOOLEAN :
          fin = rerunEffects(countdownEffect(
                  [mounted |-> TRUE, isActive |-> act, userPoints |-> 30,
                   aiPoints |-> a, eodAt |-> e, now |-> 0, timeToEOD |-> e,
                   pulse |-> 0, beatCount |-> 0,
                   countdownTimers |-> {}, beatTimers |-> {}, frames |-> {},
                   interval |-> NULL, beatHandle |-> NULL, animationFrame |-> NULL,
                   startTime |-> 0,
                   beatsSinceTick |-> 0, undisturbed |-> TRUE, changes |-> 0,
                   beatsAtActivation |-> 0]))

\* the countdown interval fires: updateTime; timeToEOD changes and the pulse
\* and beat effects run again
countdownFires ==
    /\ \E t \in fin.countdownTimers :
          /\ t.due = fin.now
          /\ LET f1 == [fin EXCEPT !.countdownTimers =
                           (@ \ {t}) \cup {[t EXCEPT !.due = t.due + t.every]},
                                   !.timeToEOD = fin.eodAt - fin.now,
                                   !.beatsSinceTick = 0,
                                   !.undisturbed = TRUE]
             IN  fin' = IF f1.timeToEOD # fin.timeToEOD THEN rerunEffects(f1) ELSE f1
    /\ UNCHANGED ParkedVars

\* the beat interval fires: setBeatCount(prev => prev + 1)
beatFires ==
    /\ \E t \in fin.beatTimers :
          /\ t.due = fin.now
          /\ fin' = [fin EXCEPT !.beatTimers =
                        (@ \ {t}) \cup {[t EXCEPT !.due = t.due + t.every]},
                                !.beatCount = @ + 1,
                                !.beatsSinceTick = @ + 1]
    /\ UNCHANGED ParkedVars

\* a requested frame comes: animate sets the pulse (here the phase
\* elapsed % cycleDuration its sine is taken of) and requests the next frame
animate ==
    /\ \E t \in fin.frames :
          LET rest == fin.frames \ {t}
              id == FreshId(rest)
          IN  fin' = [fin EXCEPT !.pulse = (fin.now - fin.startTime)
                                              % cycleDuration(IntensityValueOf(fin)),
                                 !.frames = rest \cup {[id |-> id]},
                                 !.animationFrame = id]
    /\ UNCHANGED ParkedVars

\* time passes, up to the next instant a timer is due at
advance ==
    /\ fin.now < MaxTime
    /\ \A t \in fin.countdownTimers \cup fin.beatTimers : t.due > fin.now
    /\ LET next == (fin.now \div TimerStep + 1) * TimerStep
           dues == {t.due : t \in fin.countdownTimers \cup fin.beatTimers} \cup {next}
       IN  fin' = [fin EXCEPT !.now = CHOOSE d \in dues : \A x \in dues : d <= x]
    /\ UNCHANGED ParkedVars

\* the consumer renders the hook with another isActive
setIsActive(b) ==
    /\ fin.mounted /\ fin.isActive # b /\ fin.changes < MaxChanges
    /\ fin' = rerunEffects([fin EXCEPT !.isActive = b,
                                       !.undisturbed = FALSE,
                                       !.changes = @ + 1,
                                       !.beatsAtActivation = IF b THEN fin.beatCount ELSE @])
    /\ UNCHANGED ParkedVars

\* the consumer renders the hook with other scores
setScores(a) ==
    /\ fin.mounted /\ fin.aiPoints # a /\ fin.changes < MaxChanges
    /\ fin' = rerunEffects([fin EXCEPT !.aiPoints = a,
                                       !.undisturbed = FALSE,
                                       !.changes = @ + 1])
    /\ UNCHANGED ParkedVars

\* the consumer renders the hook with another dayEndTime: the countdown
\* effect runs again, and with the new timeToEOD the other two
setDayEndTime(e) ==
    /\ fin.mounted /\ fin.eodAt # e /\ fin.changes < MaxChanges
    /\ fin' = rerunEffects(countdownEffect(countdownCleanup(
                  [fin EXCEPT !.eodAt = e,
                              !.undisturbed = FALSE,
                              !.changes = @ + 1])))
    /\ UNCHANGED ParkedVars

\* the consumer is torn down: the three cleanups
unmount ==
    /\ fin.mounted
    /\ fin' = [beatCleanup(pulseCleanup(countdownCleanup(fin)))
                  EXCEPT !.mounted = FALSE, !.undisturbed = FALSE]
    /\ UNCHANGED ParkedVars

NextTimers ==
    \/ countdownFires
    \/ beatFires
    \/ animate
    \/ advance
    \/ \E b \in BOOLEAN : setIsActive(b)
    \/ \E a \in TimerAiPoints : setScores(a)
    \/ \E e \in TimerEodAt : setDayEndTime(e)
    \/ unmount

SpecTimers == InitTimers /\ [][NextTimers]_vars

AtMostOneOfAKind ==
    /\ Cardinality(fin.countdownTimers) <= 1
    /\ Cardinality(fin.beatTimers) <= 1
    /\ Cardinality(fin.frames) <= 1

NoTimerLive ==
    fin.countdownTimers = {} /\ fin.beatTimers = {} /\ fin.frames = {}

\* C21: the pulse frame loop, the beat interval and the countdown are
\* cancelled on teardown and when isActive turns false, and restarted without
\* a leak: at most one timer of each kind is live, after teardown and while
\* isActive is false none is live, and while isActive is false pulse and
\* beatCount do not change.
C21_TimersCancelled ==
    /\ [](/\ AtMostOneOfAKind
          /\ ~fin.mounted => NoTimerLive
          /\ ~fin.isActive => NoTimerLive)
    /\ [][(~fin.isActive /\ ~fin'.isActive) =>
             (fin'.pulse = fin.pulse /\ fin'.beatCount = fin.beatCount)]_vars

\* a step in which the countdown interval fires
CountdownTick ==
    /\ fin.mounted /\ fin'.mounted /\ fin'.eodAt = fin.eodAt
    /\ fin'.countdownTimers # fin.countdownTimers

-----------------------------------------------------------------------------
(* Goals the user never completes: the sweep of the Dashboard and the periodic
   check of the database, with time passing *)

NextMissed ==
    \/ \E c \in Clients : FetchGoals(c)
    \/ \E c \in Clients : FetchProfile(c)
    \/ \E c \in Clients : SweepStart(c)
    \/ \E c \in Clients : SweepTouch(c)
    \/ \E s \in Sessions : CronSelect(s)
    \/ \E s \in Sessions : CronApply(s)
    \/ Tick

SpecMissed == Init /\ [][NextMissed]_vars

\* the sweep is on a 60 s interval of a mounted Dashboard and the clock goes
\* on: each of its steps is taken if it stays possible
SpecMissedFair ==
    /\ SpecMissed
    /\ WF_vars(Tick)
    /\ \A c \in Clients :
          WF_vars(FetchGoals(c)) /\ WF_vars(SweepStart(c)) /\ WF_vars(SweepTouch(c))

\* C22, the part on progress: a goal with a deadline that the user never
\* completes is eventually marked missed, when the sweep keeps being run.
C22_EventuallyMissed ==
    \A g \in GoalIds :
        (goals[g].exists /\ StatedDeadline(goals[g]) # NULL) ~> goals[g].completed

\* C22: a goal with a deadline that the user never completes is eventually
\* marked missed, and exactly 15 points are added to ai_points for it,
\* however late the sweep first runs: with no completion by the user,
\* ai_points is 15 for each goal marked missed.
C22_FifteenForEachMissed ==
    /\ profile.ai_points = 15 * Cardinality({g \in GoalIds : goals[g].completed})
    /\ \A g \in GoalIds :
          goals[g].completed =>
              goals[g].points_earned = 0 /\ goals[g].ai_points_earned = 15

-----------------------------------------------------------------------------
(* The end-of-day flag of the Dashboard.  Instants are in milliseconds since
   00:00 of day 0, in days of 24 hours.  fin is
     dayEnd       the day-end time of the profile, a time of day
     now          the clock
     isEndOfDay   the flag
     interval     the instant the interval of checkEndOfDay is next due at
     timeouts     the instants the pending setTimeout(setIsEndOfDay(false)) are due at
     renders      the number of times the profile was set anew *)

MaxRenders == 1
thirtyMinutes == 30 * 60 * 1000
CheckPeriod == 60000

\* checkEndOfDay without its timeout: the variant whose flag, raised after
\* the boundary, stays up to the next check (C29 must tell it from checkEndOfDay)
checkEndOfDay_keeping(timeDiff) ==
    IF timeDiff > 0 /\ timeDiff <= thirtyMinutes
    THEN [isEndOfDay |-> TRUE, timeout |-> NULL]
    ELSE IF timeDiff <= 0 /\ timeDiff > 0 - 60000
         THEN [isEndOfDay |-> TRUE, timeout |-> NULL]
         ELSE [isEndOfDay |-> FALSE, timeout |-> NULL]

\* checkEndOfDay on timeDiff = endOfDay - now: the flag it sets and the delay
\* of the timeout it starts (NULL: none)
checkEndOfDay(timeDiff) ==
    IF timeDiff > 0 /\ timeDiff <= thirtyMinutes
    THEN [isEndOfDay |-> TRUE, timeout |-> NULL]
    ELSE IF timeDiff <= 0 /\ timeDiff > 0 - 60000
         THEN [isEndOfDay |-> TRUE, timeout |-> 10000]
         ELSE [isEndOfDay |-> FALSE, timeout |-> NULL]

\* endOfDay: new Date() with setHours(hours, minutes, 0, 0), today's boundary
endOfDay(dayEnd, at) == (at \div totalDayMs) * totalDayMs + dayEnd

\* checkEndOfDay run at fin.now
checked(f) ==
    LET r == checkEndOfDay(endOfDay(f.dayEnd, f.now) - f.now)
    IN  [f EXCEPT !.isEndOfDay = r.isEndOfDay,
                  !.timeouts = IF r.timeout = NULL THEN @
                               ELSE @ \cup {f.now + r.timeout}]

EodDayEnds == {HM(23, 0), HM(23, 59), HM(0, 10)}

\* how long before the half hour ahead of a boundary the Dashboard is mounted
EodLeads == {60000, 61000, 90000, 119000}

\* the instants other than those of the timers at which the profile may be set
EodStep == 30000

\* the Dashboard's effect runs: checkEndOfDay(); setInterval(checkEndOfDay, 60000)
InitEod ==
    /\ Parked
    /\ \E d \in EodDayEnds, lead \in EodLeads :
          fin = LET at == totalDayMs + d - thirtyMinutes - lead
                IN  checked([dayEnd |-> d, now |-> at, isEndOfDay |-> FALSE,
                             interval |-> at + CheckPeriod, timeouts |-> {},
                             renders |-> 0])

\* the interval fires: checkEndOfDay
intervalFires ==
    /\ fin.interval = fin.now
    /\ fin' = checked([fin EXCEPT !.interval = fin.now + CheckPeriod])
    /\ UNCHANGED ParkedVars

\* a timeout fires: setIsEndOfDay(false)
timeoutFires ==
    /\ fin.now \in fin.timeouts
    /\ fin' = [fin EXCEPT !.isEndOfDay = FALSE, !.timeouts = @ \ {fin.now}]
    /\ UNCHANGED ParkedVars

\* fetchProfile sets the profile: the effect's cleanup clears the interval
\* (not the timeouts) and the effect runs again
profileSet ==
    /\ fin.renders < MaxRenders
    /\ fin' = checked([fin EXCEPT !.interval = fin.now + CheckPeriod,
                                  !.renders = @ + 1])
    /\ UNCHANGED ParkedVars

\* time passes, up to the next instant a timer is due at; the run ends a
\* day and a half hour after the Dashboard was mounted
advanceEod ==
    /\ fin.interval > fin.now
    /\ \A t \in fin.timeouts : t > fin.now
    /\ LET next == (fin.now \div EodStep + 1) * EodStep
           dues == fin.timeouts \cup {fin.interval, next}
           to == CHOOSE d \in dues : \A x \in dues : d <= x
       IN  /\ to <= 2 * totalDayMs + fin.dayEnd
           /\ fin' = [fin EXCEPT !.now = to]
    /\ UNCHANGED ParkedVars

NextEod == intervalFires \/ timeoutFires \/ profileSet \/ advanceEod

SpecEod == InitEod /\ [][NextEod]_vars

\* now is between 30 minutes before a boundary and 70 seconds after it
NearBoundary(f) ==
    \E k \in 0 .. 2 :
        LET b == k * totalDayMs + f.dayEnd
        IN  b - thirtyMinutes <= f.now /\ f.now <= b + 70000

\* C29: isEndOfDay is true only while now is between 30 minutes before the
\* boundary and about 70 seconds after it; each check sets it true iff
\* boundary - now is in (0, 30 min] or in (-60 s, 0], in the second case with
\* a reset to false 10 seconds later, and false otherwise; so the flag is up
\* before the boundary is reached, and past the boundary it goes down and
\* stays down until 30 minutes before the next one.
C29_EndOfDayWindow ==
    /\ [](fin.isEndOfDay => NearBoundary(fin))
    /\ [][fin'.interval # fin.interval =>
             LET timeDiff == endOfDay(fin.dayEnd, fin.now) - fin.now
                 before == timeDiff > 0 /\ timeDiff <= thirtyMinutes
                 justAfter == timeDiff <= 0 /\ timeDiff > 0 - 60000
             IN  /\ fin'.isEndOfDay <=> (before \/ justAfter)
                 /\ justAfter => fin.now + 10000 \in fin'.timeouts
                 /\ ~justAfter => fin'.timeouts = fin.timeouts]_vars
    /\ [][(fin'.timeouts # fin.timeouts /\ fin'.interval = fin.interval) =>
             (~fin'.isEndOfDay /\ fin'.timeouts = fin.timeouts \ {fin.now})]_vars

\* C29, its case: a check 59 s after the boundary raised the flag and its
\* timeout is about to lower it, 69 s after the boundary
C29_Witness ==
    /\ fin.isEndOfDay
    /\ fin.now = endOfDay(fin.dayEnd, fin.now - 69000) + 69000
    /\ fin.now \in fin.timeouts

-----------------------------------------------------------------------------
(* Daily goals created after the day-end time of their creation date, in a
   browser of any zone *)

\* is the instant t later than the day-end time on its local date?
AfterDayEnd(t) == TimeOf(t + tz) > UserDayEndTime(profile)

\* the goals were inserted just now, after the day-end time of today
InitLate ==
    /\ now \in Epoch .. Epoch + DayLen - 1
    /\ tz \in TZOffsets
    /\ profile \in {[total_points |-> 0, ai_points |-> 0, day_end_time |-> d,
                     current_streak |-> 0, longest_streak |-> 0,
                     last_goal_date |-> NULL] : d \in DayEndChoices}
    /\ AfterDayEnd(now)
    /\ \E n \in GoalIds :
          goals = [g \in GoalIds |->
                      IF g <= n THEN InsertedGoal(<<"daily", NULL, NULL>>, now)
                      ELSE NoGoal]
    /\ view_goals = [c \in Clients |-> [g \in GoalIds |-> GoalView(goals[g])]]
    /\ view_profile = [c \in Clients |-> ProfileView(profile)]
    /\ pc = [c \in Clients |-> "idle"]
    /\ pending = [c \in Clients |-> NoPending]
    /\ sweepQ = [c \in Clients |-> {}]
    /\ cron = [s \in Sessions |-> NoCron]
    /\ ev = NoEvent
    /\ fin = <<>>

SpecLate == InitLate /\ [][NextMissed]_vars

\* a tick of the day as the "HH:MM" useGameLoop is given, and in milliseconds
TickDayEndTime(t) ==
    [hours |-> (t * (1440 \div DayLen)) \div 60,
     minutes |-> (t * (1440 \div DayLen)) % 60]
TickMs(t) == t * (totalDayMs \div DayLen)

\* C30: the deadline of a daily goal is not rolled forward: a daily goal
\* created after the day-end time of its creation date is past its deadline
\* from its creation on, the sweep finds it overdue, and a missed-goal check
\* that reaches it marks it missed and adds 15 to ai_points, while the
\* countdown at the instant of creation runs to the day-end time of the next
\* day.
C30_LateDailyGoalMissed ==
    /\ [](\A g \in GoalIds :
             (goals[g].exists /\ ~goals[g].completed) =>
                 /\ now > GoalDeadline(goals[g], UserDayEndTime(profile))
                 /\ \A c \in Clients :
                       ~view_goals[c][g].completed => MissedFilter(c, g, now)
                 /\ LET at == TimeOf(goals[g].created_at + tz)
                    IN  calculateTimeToEOD(TickDayEndTime(UserDayEndTime(profile)),
                                           TickMs(at), totalDayMs)
                            = TickMs(UserDayEndTime(profile) + DayLen - at))
    /\ [][\A g \in GoalIds :
             (ev'.goal = g /\ ~goals[g].completed) =>
                 /\ goals'[g].completed
                 /\ goals'[g].ai_points_earned = 15
                 /\ profile'.ai_points = profile.ai_points + 15]_vars

=============================================================================
